---- MODULE Spec2Model ----
(***************************************************************************)
(* State-machine model of the planning core of dcs-retribution:            *)
(*   - TheaterState (game/commander/theaterstate.py): the working snapshot *)
(*     of one planning pass, its clones and the lists they share;          *)
(*   - PackagePlanningTask (game/commander/tasks/packageplanningtask.py):  *)
(*     the threat-zone evaluation and the planning task life cycle;        *)
(*   - Package (game/ato/package.py) with CustomFlightPlan                 *)
(*     (game/ato/flightplans/custom.py) and the two UI callers that edit   *)
(*     packages (QFlightSlotEditor._change_squadron, QTopPanel.fix_tots).  *)
(* Python object references are modelled explicitly: a list that two       *)
(* objects share is one heap cell that both reference.                     *)
(***************************************************************************)
EXTENDS Integers, Sequences, FiniteSets, TLC

(***************************************************************************)
(* Bounds of the model.                                                    *)
(***************************************************************************)
\* number of TheaterState objects of one planning pass (the root and its clones)
MaxStates == 2
\* number of Package objects and of Flight objects ever constructed
MaxPackages == 2
MaxFlights == 2
\* latest mission clock reading passed to the TOT estimation
MaxNow == 1

(***************************************************************************)
(* The theater the planner looks at.  Positions lie on a line; distances   *)
(* and ranges are whole meters.                                            *)
(***************************************************************************)
StateId == 0 .. (MaxStates - 1)
NoState == 0 - 1

AirDefenses == {"sam1", "aaa1"}
Ships == {"ship1"}
IadsObjects == AirDefenses \cup Ships
Targets == {"t_west", "t_mid", "t_east"}
\* the targets of the tasks whose threat gate is studied across settings
GateTargets == Targets \cup {"t_near"}

\* TheaterGroundObject.position, MissionTarget.position
Position == [sam1 |-> 0, aaa1 |-> 5, ship1 |-> 7,
             t_west |-> 2, t_mid |-> 5, t_east |-> 14, t_near |-> 4]
\* max_detection_range(); aaa1 has no radar
DetectionRange == [sam1 |-> 5, aaa1 |-> 0, ship1 |-> 4]
\* max_threat_range(); ship1 is unarmed
ThreatRange == [sam1 |-> 2, aaa1 |-> 3, ship1 |-> 0]
\* TheaterGroundObject.task
GroupTask == [sam1 |-> "LORAD", aaa1 |-> "AAA", ship1 |-> "Navy"]

Abs(x) == IF x < 0 THEN -x ELSE x

\* meters(target.distance_to(self.target))
distance_to(obj, target) == Abs(Position[obj] - Position[target])
max_detection_range(obj) == DetectionRange[obj]
max_threat_range(obj) == ThreatRange[obj]

\* class RangeType(IntEnum): Detection = auto(); Threat = auto()
RangeType == {"Detection", "Threat"}

(***************************************************************************)
(* Sequence helpers (Python list semantics).                               *)
(***************************************************************************)
Range(seq) == {seq[i] : i \in DOMAIN seq}

\* x in list
Contains(seq, x) == \E i \in DOMAIN seq : seq[i] = x

\* list.remove(x) for a list that holds x: drops the first occurrence
RemoveFirst(seq, x) ==
    LET i == CHOOSE k \in DOMAIN seq : seq[k] = x /\ \A j \in 1 .. (k - 1) : seq[j] # x
    IN  SubSeq(seq, 1, i - 1) \o SubSeq(seq, i + 1, Len(seq))

NoDuplicates(seq) == \A i, j \in DOMAIN seq : seq[i] = seq[j] => i = j

\* all orderings of a finite set, as duplicate-free sequences
Permutations_(S) == {seq \in [1 .. Cardinality(S) -> S] : Range(seq) = S}

(***************************************************************************)
(* State.                                                                  *)
(***************************************************************************)
VARIABLES
    \* --- TheaterState objects, indexed by StateId ---------------------------
    live,                       \* the TheaterState objects that exist
    enemy_air_defenses,         \* [StateId -> list of IadsGroundObject]  (own list)
    enemy_ships,                \* [StateId -> list of NavalGroundObject] (own list)
    threat_zones,               \* [StateId -> ThreatZones value]
    threatening_air_defenses,   \* [StateId -> reference into list_heap]
    detecting_air_defenses,     \* [StateId -> reference into list_heap]
    list_heap,                  \* the list objects behind the persistent properties
    recovery_targets,           \* [StateId -> dict ControlPoint -> int]   (own dict)
    barcaps_needed,             \* [StateId -> dict ControlPoint -> int]   (own dict)
    enemy_battle_positions,     \* [StateId -> dict ControlPoint -> BattlePositions]
    bp_heap,                    \* the list objects the BattlePositions fields reference
    \* --- PersistentContext --------------------------------------------------
    player,                     \* context.coalition.player
    ownfor_autoplanner_aggressiveness,
    opfor_autoplanner_aggressiveness,
    auto_ato_behavior,          \* context.settings.auto_ato_behavior
    \* --- Package and Flight objects, ATO, flight database -------------------
    packages,                   \* the Package objects that exist
    flights,                    \* [PackageId -> package.flights]
    time_over_target,           \* [PackageId -> package.time_over_target]
    waypoints,                  \* [PackageId -> package.waypoints]
    created_flights,            \* the Flight objects that exist
    flight_package,             \* [FlightId -> flight.package]
    flight_attrs,               \* [FlightId -> the other attributes of the flight]
    db,                         \* package._db: the flight ids registered
    tasked,                     \* the flights that hold pilots and aircraft of their squadron
    flight_cargo,               \* [FlightId -> flight.cargo]
    cargo_transport,            \* [Cargo -> the flight of cargo.transport]
    ato,                        \* coalition.ato.packages
    \* --- PackagePlanningTask objects ----------------------------------------
    task_flights,               \* [Tasks -> task.flights] (the proposed flights)
    task_package,               \* [Tasks -> task.package]
    \* --- QLiberationWindow --------------------------------------------------
    window_game,                \* self.game
    game_actions_enabled,       \* what enable_game_actions last set
    window_title,               \* the file name shown in the window title
    \* --- Faction ------------------------------------------------------------
    faction_units,              \* [unit set of the faction -> the unit ids in it]
    preset_groups,              \* faction.preset_groups: the groups' names
    mod_settings,               \* faction.mod_settings
    \* --- observation of the most recent call --------------------------------
    last

theaterVars == <<live, enemy_air_defenses, enemy_ships, threat_zones,
                 threatening_air_defenses, detecting_air_defenses, list_heap>>
branchVars == <<recovery_targets, barcaps_needed, enemy_battle_positions, bp_heap>>
contextVars == <<player, ownfor_autoplanner_aggressiveness,
                 opfor_autoplanner_aggressiveness, auto_ato_behavior>>
planVars == <<task_flights, task_package>>
packageVars == <<packages, flights, time_over_target, waypoints, created_flights,
                 flight_package, flight_attrs, db, tasked, flight_cargo,
                 cargo_transport, ato>>
windowVars == <<window_game, game_actions_enabled, window_title>>
factionVars == <<faction_units, preset_groups, mod_settings>>
vars == <<theaterVars, branchVars, contextVars, windowVars, factionVars, packageVars,
          planVars, last>>

\* A reference to a persistent list object: the kind of list and the state
\* object whose construction created it.
Ref == {"threatening", "detecting"} \X StateId

\* Friendly naval control points (keys of recovery_targets), the control
\* points that need BARCAPs, and the capturable enemy control points.
Fleets == {"carrier", "lha"}
BarcapPoints == {"carrier", "airbase"}
EnemyPoints == {"cp_north"}
\* VehicleGroupGroundObject.control_point
VehicleGroupPoint == [vg_block |-> "cp_north", vg_front |-> "cp_north"]
VehicleGroups == DOMAIN VehicleGroupPoint
\* A reference to a list held by a BattlePositions object: the field it was
\* created for and the control point.
BpRef == {"blocking_capture", "defending_front_line"} \X EnemyPoints

\* The call most recently made and its outcome (return value, exception,
\* values yielded).  The calls of the generator also record their arguments.
Call(op, state, target, arg, ret, raised, out) ==
    [op |-> op, state |-> state, target |-> target, arg |-> arg,
     ret |-> ret, raised |-> raised, out |-> out]

(***************************************************************************)
(* Threat zone evaluation: PackagePlanningTask.iter_iads_ranges.           *)
(***************************************************************************)
\* itertools.chain(state.enemy_air_defenses, state.enemy_ships)
all_iads(state) == enemy_air_defenses[state] \o enemy_ships[state]

target_range_one_branch(obj, range_type) ==
    IF range_type = "Detection"
    THEN [raised |-> FALSE, range |-> max_detection_range(obj)]
    ELSE [raised |-> TRUE, range |-> 0]

\* The if/elif/else on range_type: the range to compare against, or the
\* ValueError for a value that is no RangeType.
target_range(obj, range_type) ==
    IF range_type = "Detection"
    THEN [raised |-> FALSE, range |-> max_detection_range(obj)]
    ELSE IF range_type = "Threat"
         THEN [raised |-> FALSE, range |-> max_threat_range(obj)]
         ELSE [raised |-> TRUE, range |-> 0]

in_range_strict(distance_to_threat) == distance_to_threat < 0

\* "if distance_to_threat > meters(0): continue" -- the objects that stay
in_range(distance_to_threat) == ~(distance_to_threat > 0)

\* The for loop: the (object, distance_to_threat) pairs appended to
\* target_ranges, in iteration order.
RECURSIVE target_ranges(_, _, _)
target_ranges(objs, target, range_type) ==
    IF objs = <<>> THEN <<>>
    ELSE LET obj == Head(objs)
             rng == target_range(obj, range_type).range
             distance_to_threat == distance_to(obj, target) - rng
             rest == target_ranges(Tail(objs), target, range_type)
         IN  IF rng = 0 THEN rest                          \* if not target_range
             ELSE IF ~in_range(distance_to_threat) THEN rest
             ELSE <<<<obj, distance_to_threat>>>> \o rest

\* One step of a stable sort on the second component: the pair goes behind
\* every pair whose key is not greater.
RECURSIVE insert_by_range(_, _)
insert_by_range(sorted, pair) ==
    IF sorted = <<>> THEN <<pair>>
    ELSE IF Head(sorted)[2] <= pair[2]
         THEN <<Head(sorted)>> \o insert_by_range(Tail(sorted), pair)
         ELSE <<pair>> \o sorted

\* sorted(target_ranges, key=operator.itemgetter(1)); Python's sort is stable
RECURSIVE sorted_by_range(_)
sorted_by_range(pairs) ==
    IF pairs = <<>> THEN <<>>
    ELSE insert_by_range(sorted_by_range(SubSeq(pairs, 1, Len(pairs) - 1)),
                         pairs[Len(pairs)])

\* iter_iads_ranges: what the generator yields, or the exception it raises.
iter_iads_ranges(state, target, range_type) ==
    LET objs == all_iads(state)
        raised == objs # <<>> /\ target_range(Head(objs), range_type).raised
        pairs == sorted_by_range(target_ranges(objs, target, range_type))
    IN  [raised |-> raised,
         out |-> IF raised THEN <<>> ELSE [i \in DOMAIN pairs |-> pairs[i][1]]]

iter_detecting_iads(state, target) == iter_iads_ranges(state, target, "Detection")

iter_iads_threats(state, target) == iter_iads_ranges(state, target, "Threat")

\* corrective_factor_for_type, in tenths (1.0 / 0.5 / 0.9)
corrective_factor_for_type(obj) ==
    IF GroupTask[obj] \in {"LORAD", "MERAD"} THEN 10
    ELSE IF GroupTask[obj] = "AAA" THEN 5 ELSE 9

aggressiveness_of_opponent ==
    IF player THEN opfor_autoplanner_aggressiveness
    ELSE ownfor_autoplanner_aggressiveness

\* the aggressiveness setting of the planning coalition
aggressiveness ==
    IF player THEN ownfor_autoplanner_aggressiveness
    ELSE opfor_autoplanner_aggressiveness

\* margin = 100 - aggressiveness of the planning coalition
margin == 100 - aggressiveness

\* threat_range = max_threat_range * (margin / 100) * corrective_factor,
\* scaled by 1000 so that it stays an integer
weighted_threat_range(obj, m) ==
    max_threat_range(obj) * m * corrective_factor_for_type(obj)

\* _get_weighted_threat_range (scaled by 1000): distance - threat_range
get_weighted_threat_range(obj, target) ==
    distance_to(obj, target) * 1000 - weighted_threat_range(obj, margin)

blocks_or_touches(weighted) == weighted <= 0

\* "if weighted < meters(0): threatened = True"
blocks(weighted) == weighted < 0

append_always(lst, items) == lst \o items

\* "if x not in lst: lst.append(x)" for every x of items, in order
RECURSIVE append_missing(_, _)
append_missing(lst, items) ==
    IF items = <<>> THEN lst
    ELSE append_missing(IF Contains(lst, Head(items)) THEN lst
                        ELSE Append(lst, Head(items)),
                        Tail(items))

(***************************************************************************)
(* TheaterState: persistent lists, clone, eliminate_*.                     *)
(***************************************************************************)
\* state.threatening_air_defenses / state.detecting_air_defenses as lists
threatening_list(state) == list_heap[threatening_air_defenses[state]]
detecting_list(state) == list_heap[detecting_air_defenses[state]]

\* ThreatZones.for_threats(..., air_defenses=chain(enemy_air_defenses,
\* enemy_ships)): the zone is a function of the defenses it is built from.
for_threats(air_defenses) == Range(air_defenses)

\* "x if x in lst: lst.remove(x)" on the list behind ref
remove_if_present(heap, ref, x) ==
    IF Contains(heap[ref], x) THEN [heap EXCEPT ![ref] = RemoveFirst(@, x)] ELSE heap

\* PackagePlanningTask.target_area_preconditions_met(state, ignore_iads)
\* of a task whose target is `target`.
target_area_preconditions_met(state, target, ignore_iads) ==
    LET detectors == iter_detecting_iads(state, target)
        heap1 == IF detectors.raised THEN list_heap
                 ELSE [list_heap EXCEPT ![detecting_air_defenses[state]] =
                           append_missing(@, detectors.out)]
        threats == IF ignore_iads \/ detectors.raised
                   THEN [raised |-> FALSE, out |-> <<>>]
                   ELSE iter_iads_threats(state, target)
        heap2 == IF threats.raised THEN heap1
                 ELSE [heap1 EXCEPT ![threatening_air_defenses[state]] =
                           append_missing(@, threats.out)]
        threatened == \E i \in DOMAIN threats.out :
                          blocks(get_weighted_threat_range(threats.out[i], target))
        raised == detectors.raised \/ threats.raised
    IN  /\ state \in live
        /\ list_heap' = heap2
        /\ last' = Call("target_area_preconditions_met", NoState, "-", "-",
                        ~raised /\ ~threatened, raised, <<>>)
        /\ UNCHANGED <<live, enemy_air_defenses, enemy_ships, threat_zones,
                       threatening_air_defenses, detecting_air_defenses>>
        /\ UNCHANGED <<branchVars, contextVars, windowVars, factionVars, packageVars, planVars>>

\* A planning task that walks the generator itself (iter_iads_threats /
\* iter_detecting_iads of a task whose target is `target`).
IterIadsRanges(state, target, range_type) ==
    LET res == iter_iads_ranges(state, target, range_type)
    IN  /\ state \in live
        /\ last' = Call("iter_iads_ranges", state, target, range_type,
                        FALSE, res.raised, res.out)
        /\ UNCHANGED <<theaterVars, branchVars, contextVars, windowVars, factionVars, packageVars, planVars>>

clone_persistent_copy(ref, c) == <<ref[1], c>>

\* What the clone holds for a persistent property: the very list object of
\* the state it is cloned from ("Persistent properties are not copied").
clone_persistent(ref, c) == ref

\* TheaterState.clone(): the new object c.
clone(state, c) ==
    LET tref == clone_persistent(threatening_air_defenses[state], c)
        dref == clone_persistent(detecting_air_defenses[state], c)
    IN  /\ state \in live
        /\ c \notin live
        /\ \A k \in StateId : k < c => k \in live
        /\ live' = live \cup {c}
        /\ enemy_air_defenses' = [enemy_air_defenses EXCEPT ![c] = enemy_air_defenses[state]]
        /\ enemy_ships' = [enemy_ships EXCEPT ![c] = enemy_ships[state]]
        /\ threat_zones' = [threat_zones EXCEPT ![c] = threat_zones[state]]
        /\ threatening_air_defenses' = [threatening_air_defenses EXCEPT ![c] = tref]
        /\ detecting_air_defenses' = [detecting_air_defenses EXCEPT ![c] = dref]
        /\ list_heap' = [list_heap EXCEPT ![tref] = threatening_list(state),
                                          ![dref] = detecting_list(state)]
        /\ recovery_targets' = [recovery_targets EXCEPT ![c] = recovery_targets[state]]
        /\ barcaps_needed' = [barcaps_needed EXCEPT ![c] = barcaps_needed[state]]
        \* {cp: dataclasses.replace(g) ...}: a new dict of new BattlePositions
        \* objects whose fields are the fields of g
        /\ enemy_battle_positions' =
               [enemy_battle_positions EXCEPT ![c] =
                    [cp \in EnemyPoints |->
                        [blocking_capture |->
                             enemy_battle_positions[state][cp].blocking_capture,
                         defending_front_line |->
                             enemy_battle_positions[state][cp].defending_front_line]]]
        /\ UNCHANGED bp_heap
        /\ last' = Call("clone", NoState, "-", "-", TRUE, FALSE, <<>>)
        /\ UNCHANGED <<contextVars, windowVars, factionVars, packageVars, planVars>>

\* TheaterState.eliminate_air_defense(target)
eliminate_air_defense(state, target) ==
    LET heap1 == remove_if_present(list_heap, threatening_air_defenses[state], target)
        heap2 == remove_if_present(heap1, detecting_air_defenses[state], target)
        \* list.remove raises ValueError when the target is not in the list
        raised == ~Contains(enemy_air_defenses[state], target)
        defenses == IF raised THEN enemy_air_defenses[state]
                    ELSE RemoveFirst(enemy_air_defenses[state], target)
    IN  /\ state \in live
        /\ list_heap' = heap2
        /\ enemy_air_defenses' = [enemy_air_defenses EXCEPT ![state] = defenses]
        /\ threat_zones' = IF raised THEN threat_zones
                           ELSE [threat_zones EXCEPT ![state] =
                                     for_threats(defenses \o enemy_ships[state])]
        /\ last' = Call("eliminate_air_defense", NoState, "-", "-", ~raised, raised, <<>>)
        /\ UNCHANGED <<live, enemy_ships, threatening_air_defenses, detecting_air_defenses>>
        /\ UNCHANGED <<branchVars, contextVars, windowVars, factionVars, packageVars, planVars>>

\* TheaterState.eliminate_ship(target)
eliminate_ship(state, target) ==
    LET heap1 == remove_if_present(list_heap, threatening_air_defenses[state], target)
        heap2 == remove_if_present(heap1, detecting_air_defenses[state], target)
        raised == ~Contains(enemy_ships[state], target)
        ships == IF raised THEN enemy_ships[state]
                 ELSE RemoveFirst(enemy_ships[state], target)
    IN  /\ state \in live
        /\ list_heap' = heap2
        /\ enemy_ships' = [enemy_ships EXCEPT ![state] = ships]
        /\ threat_zones' = IF raised THEN threat_zones
                           ELSE [threat_zones EXCEPT ![state] =
                                     for_threats(enemy_air_defenses[state] \o ships)]
        /\ last' = Call("eliminate_ship", NoState, "-", "-", ~raised, raised, <<>>)
        /\ UNCHANGED <<live, enemy_air_defenses, threatening_air_defenses,
                       detecting_air_defenses>>
        /\ UNCHANGED <<branchVars, contextVars, windowVars, factionVars, packageVars, planVars>>

(***************************************************************************)
(* Package, Flight and CustomFlightPlan.                                   *)
(***************************************************************************)
PackageId == 1 .. MaxPackages
FlightId == 1 .. MaxFlights
\* "package: Optional[Package] = None", "self.waypoints = None"
NoPackage == 0
\* mission clock readings (datetime values are whole time units)
Nows == 1 .. MaxNow
\* "self.time_over_target: datetime = datetime.min"
DatetimeMin == 0
\* the fixed buffer the TOT estimation adds to the slowest transit
TotBuffer == 1

Squadrons == {"sq_a", "sq_b"}

\* The flights the model constructs: the squadron, whether the flight has a
\* flight plan, the plan's shortest time from start to TOT, the waypoint
\* types of the plan's custom waypoints (the departure waypoint precedes
\* them), the flight's task, its departure control point, whether its
\* aircraft are helicopters and the number of aircraft.
FlightOf(squadron, flight_plan, transit, custom_waypoints, flight_type, departure, is_helo, count) ==
    [squadron |-> squadron, flight_plan |-> flight_plan, transit |-> transit,
     custom_waypoints |-> custom_waypoints, flight_type |-> flight_type,
     departure |-> departure, is_helo |-> is_helo, count |-> count]

FlightKinds ==
    { FlightOf("sq_a", "custom", 2, <<"NAV", "TARGET_POINT">>, "BAI", "carrier", FALSE, 1),
      FlightOf("sq_a", "custom", 1, <<>>, "ESCORT", "airbase", FALSE, 1),
      FlightOf("sq_b", "none", 0, <<>>, "AEWC", "lha", TRUE, 1) }

NoFlight == FlightOf("-", "none", 0, <<>>, "-", "-", FALSE, 0)

\* ids are handed out in order; an id is never used twice
next_package == Cardinality(packages) + 1
next_flight == Cardinality(created_flights) + 1

\* --- CustomFlightPlan ----------------------------------------------------
\* Waypoints are named by their place in the plan: 0 is layout.departure,
\* i >= 1 is layout.custom_waypoints[i].
\* CustomLayout.iter_waypoints / FlightPlan.waypoints
plan_waypoints(f) == <<0>> \o [i \in DOMAIN flight_attrs[f].custom_waypoints |-> i]

waypoint_type(f, w) ==
    IF w = 0 THEN "TAKEOFF" ELSE flight_attrs[f].custom_waypoints[w]

\* "waypoint in target_types": a FlightWaypoint compared with the members of
\* a tuple of FlightWaypointType; a waypoint object equals no enum member.
waypoint_in_target_types(f, w) == FALSE

\* CustomFlightPlan.tot_waypoint
tot_waypoint(f) ==
    LET ws == plan_waypoints(f)
        hits == {i \in DOMAIN ws : waypoint_in_target_types(f, ws[i])}
    IN  IF hits = {} THEN 0
        ELSE ws[CHOOSE i \in hits : \A j \in hits : i <= j]

\* FlightPlan.tot: the package's time over target (plus the plan's
\* tot_offset, which is zero for a custom plan); the package is reached
\* through the flight.
flight_plan_tot(f) == time_over_target[flight_package[f]]

\* CustomFlightPlan.tot_for_waypoint; "None" when it has no TOT
tot_for_waypoint(f, w) ==
    IF w = tot_waypoint(f) THEN flight_plan_tot(f) ELSE NoPackage - 1

\* CustomFlightPlan.depart_time_for_waypoint: None
depart_time_for_waypoint(f, w) == NoPackage - 1

mission_departure_time_initial(f) == DatetimeMin

\* CustomFlightPlan.mission_departure_time
mission_departure_time(f) == time_over_target[flight_package[f]]

\* --- TotEstimator --------------------------------------------------------
SetMax(S) == IF S = {} THEN 0 ELSE CHOOSE x \in S : \A y \in S : y <= x

\* the transit time a flight contributes: zero without a flight plan
transit_time(f) ==
    IF flight_attrs[f].flight_plan = "none" THEN 0 ELSE flight_attrs[f].transit

\* TotEstimator(package).earliest_tot(now)
earliest_tot(package, now) ==
    now + SetMax({transit_time(flights[package][i]) : i \in DOMAIN flights[package]})
        + TotBuffer

\* --- Package -------------------------------------------------------------
PkgCall(op, ret, raised) == Call(op, NoState, "-", "-", ret, raised, <<>>)

\* Package.__init__: a package under construction by the planner or the UI
NewPackage ==
    LET p == next_package
    IN  /\ p \in PackageId
        /\ packages' = packages \cup {p}
        /\ flights' = [flights EXCEPT ![p] = <<>>]
        /\ time_over_target' = [time_over_target EXCEPT ![p] = DatetimeMin]
        /\ waypoints' = [waypoints EXCEPT ![p] = "None"]
        /\ last' = PkgCall("Package", TRUE, FALSE)
        /\ UNCHANGED <<created_flights, tasked, flight_package, flight_attrs, db, ato>>
        /\ UNCHANGED <<theaterVars, branchVars, contextVars, windowVars, factionVars, planVars>>
        /\ UNCHANGED <<flight_cargo, cargo_transport>>

\* coalition.ato.add_package(package)
ato_add_package(package) ==
    /\ package \in packages
    /\ ~Contains(ato, package)
    /\ ato' = Append(ato, package)
    /\ last' = PkgCall("add_package", TRUE, FALSE)
    /\ UNCHANGED <<packages, flights, time_over_target, waypoints, created_flights, tasked,
                   flight_package, flight_attrs, db>>
    /\ UNCHANGED <<theaterVars, branchVars, contextVars, windowVars, factionVars, planVars>>
    /\ UNCHANGED <<flight_cargo, cargo_transport>>

\* The flight plan builder of a formation flight stores the package's
\* PackageWaypoints.
SetWaypoints(package) ==
    /\ package \in packages
    /\ flights[package] # <<>>
    /\ waypoints[package] = "None"
    /\ waypoints' = [waypoints EXCEPT ![package] = "PackageWaypoints"]
    /\ last' = PkgCall("set_waypoints", TRUE, FALSE)
    /\ UNCHANGED <<packages, flights, time_over_target, created_flights, tasked,
                   flight_package, flight_attrs, db, ato>>
    /\ UNCHANGED <<theaterVars, branchVars, contextVars, windowVars, factionVars, planVars>>
    /\ UNCHANGED <<flight_cargo, cargo_transport>>

\* TransferOrder objects carried as flight.cargo; None is NoCargo
Cargo == {"transfer1", "transfer2"}
NoCargo == "None"

\* cargo.transport is None
NoTransport == 0

\* Flight.return_pilots_and_aircraft: the flight holds nothing of its
\* squadron afterwards
return_pilots_and_aircraft(held, flight) == held \ {flight}

\* a removal that leaves the cargo with its transport
transport_kept(transport, cargo) == transport

\* "if flight.cargo is not None: flight.cargo.transport = None"
transport_after_remove(transport, cargo) ==
    IF cargo = NoCargo THEN transport ELSE [transport EXCEPT ![cargo] = NoTransport]

\* Database.add(id, object): the id is registered
db_add(ids, id) == ids \cup {id}

\* a database that forgets nothing
db_remove_nothing(ids, id) == ids

\* Database.remove(id): the id is no longer registered
db_remove(ids, id) == ids \ {id}

\* Package.add_flight: self.flights.append(flight)
add_flight(fl, package, flight) == [fl EXCEPT ![package] = Append(@, flight)]

\* QFlightCreator.create_flight: Flight(self.package, ...), handed to the
\* package with add_flight.
CreateFlight(package, kind) ==
    LET f == next_flight
    IN  /\ package \in packages
        /\ f \in FlightId
        /\ created_flights' = created_flights \cup {f}
        /\ tasked' = tasked \cup {f}
        /\ flight_package' = [flight_package EXCEPT ![f] = package]
        /\ flight_attrs' = [flight_attrs EXCEPT ![f] = kind]
        /\ flights' = add_flight(flights, package, f)
        /\ db' = db_add(db, f)
        /\ last' = PkgCall("add_flight", TRUE, FALSE)
        /\ UNCHANGED <<packages, time_over_target, waypoints, ato>>
        /\ UNCHANGED <<theaterVars, branchVars, contextVars, windowVars, factionVars, planVars>>
        /\ UNCHANGED <<flight_cargo, cargo_transport>>

waypoints_kept(wp, remaining) == wp

\* "if not self.flights: self.waypoints = None"
waypoints_after_remove(wp, remaining) == IF remaining = <<>> THEN "None" ELSE wp

\* Package.remove_flight(flight)
remove_flight(package, flight) ==
    LET raised == ~Contains(flights[package], flight)   \* list.remove: ValueError
        remaining == IF raised THEN flights[package]
                     ELSE RemoveFirst(flights[package], flight)
    IN  /\ package \in packages
        /\ flight \in created_flights
        /\ flights' = [flights EXCEPT ![package] = remaining]
        /\ db' = IF raised THEN db ELSE db_remove(db, flight)
        /\ waypoints' = IF raised THEN waypoints
                        ELSE [waypoints EXCEPT ![package] =
                                  waypoints_after_remove(@, remaining)]
        /\ tasked' = IF raised THEN tasked ELSE return_pilots_and_aircraft(tasked, flight)
        /\ cargo_transport' = IF raised THEN cargo_transport
                              ELSE transport_after_remove(cargo_transport, flight_cargo[flight])
        /\ last' = PkgCall("remove_flight", ~raised, raised)
        /\ UNCHANGED <<packages, time_over_target, created_flights, flight_package,
                       flight_attrs, ato>>
        /\ UNCHANGED <<theaterVars, branchVars, contextVars, windowVars, factionVars, planVars>>
        /\ UNCHANGED flight_cargo

cloned_flight_keeps_package(package, the_clone) == package

\* "cf.package = the_clone"
cloned_flight_package(package, the_clone) == the_clone

\* Package.clone_package(package): the the_clone and one new flight per flight
\* of the package, in order.
clone_package(package) ==
    LET the_clone == next_package
        n == Len(flights[package])
        new_ids == [i \in 1 .. n |-> Cardinality(created_flights) + i]
    IN  /\ package \in packages
        /\ the_clone \in PackageId
        /\ \A i \in 1 .. n : new_ids[i] \in FlightId
        /\ packages' = packages \cup {the_clone}
        /\ time_over_target' = [time_over_target EXCEPT ![the_clone] = time_over_target[package]]
        /\ waypoints' = [waypoints EXCEPT ![the_clone] = "None"]
        /\ created_flights' = created_flights \cup Range(new_ids)
        /\ tasked' = tasked \cup Range(new_ids)
        /\ flight_attrs' = [f \in FlightId |->
               IF \E i \in 1 .. n : new_ids[i] = f
               THEN flight_attrs[flights[package][CHOOSE i \in 1 .. n : new_ids[i] = f]]
               ELSE flight_attrs[f]]
        /\ flight_package' = [f \in FlightId |->
               IF f \in Range(new_ids) THEN cloned_flight_package(package, the_clone)
               ELSE flight_package[f]]
        /\ flights' = [flights EXCEPT ![the_clone] = new_ids]
        /\ db' = db \cup Range(new_ids)
        /\ last' = PkgCall("clone_package", TRUE, FALSE)
        /\ UNCHANGED ato
        /\ UNCHANGED <<theaterVars, branchVars, contextVars, windowVars, factionVars, planVars>>
        /\ UNCHANGED <<flight_cargo, cargo_transport>>

\* QFlightSlotEditor._change_squadron on the editor of `flight`: a new
\* flight of the chosen squadron is added to the package, then the old
\* flight is deleted from it.
change_squadron(flight, squadron) ==
    LET package == flight_package[flight]
        f == next_flight
        added == add_flight(flights, package, f)
        remaining == RemoveFirst(added[package], flight)
    IN  /\ flight \in created_flights
        /\ package \in packages
        /\ Contains(flights[package], flight)
        /\ f \in FlightId
        /\ created_flights' = created_flights \cup {f}
        /\ tasked' = return_pilots_and_aircraft(tasked \cup {f}, flight)
        /\ flight_package' = [flight_package EXCEPT ![f] = package]
        /\ flight_attrs' = [flight_attrs EXCEPT ![f] =
                               [flight_attrs[flight] EXCEPT !.squadron = squadron]]
        /\ flights' = [added EXCEPT ![package] = remaining]
        /\ db' = db_remove(db_add(db, f), flight)
        /\ waypoints' = [waypoints EXCEPT ![package] =
                             waypoints_after_remove(@, remaining)]
        /\ last' = PkgCall("change_squadron", TRUE, FALSE)
        /\ UNCHANGED <<packages, time_over_target, ato>>
        /\ UNCHANGED <<theaterVars, branchVars, contextVars, windowVars, factionVars, planVars>>
        \* "cargo=self.flight.cargo"
        /\ flight_cargo' = [flight_cargo EXCEPT ![f] = flight_cargo[flight]]
        /\ cargo_transport' = transport_after_remove(cargo_transport, flight_cargo[flight])

set_tot_asap_skipped(package, now) ==
    /\ package \in packages
    /\ last' = PkgCall("set_tot_asap", TRUE, FALSE)
    /\ UNCHANGED <<packages, flights, time_over_target, waypoints, created_flights, tasked,
                   flight_package, flight_attrs, db, ato>>
    /\ UNCHANGED <<theaterVars, branchVars, contextVars, windowVars, factionVars, planVars>>
    /\ UNCHANGED <<flight_cargo, cargo_transport>>

\* Package.set_tot_asap(now)
set_tot_asap(package, now) ==
    /\ package \in packages
    /\ time_over_target' = [time_over_target EXCEPT ![package] =
                                earliest_tot(package, now)]
    /\ last' = PkgCall("set_tot_asap", TRUE, FALSE)
    /\ UNCHANGED <<packages, flights, waypoints, created_flights, tasked, flight_package,
                   flight_attrs, db, ato>>
    /\ UNCHANGED <<theaterVars, branchVars, contextVars, windowVars, factionVars, planVars>>
    /\ UNCHANGED <<flight_cargo, cargo_transport>>

\* QTopPanel.fix_tots(packages): every package of the list gets the
\* estimator's earliest TOT.  The estimator is called without a clock
\* argument; `clock` is the reading it works with.
fix_tots(pkgs, clock) ==
    /\ pkgs # {}
    /\ pkgs \subseteq packages
    /\ time_over_target' = [p \in PackageId |->
           IF p \in pkgs THEN earliest_tot(p, clock) ELSE time_over_target[p]]
    /\ last' = PkgCall("fix_tots", TRUE, FALSE)
    /\ UNCHANGED <<packages, flights, waypoints, created_flights, tasked, flight_package,
                   flight_attrs, db, ato>>
    /\ UNCHANGED <<theaterVars, branchVars, contextVars, windowVars, factionVars, planVars>>
    /\ UNCHANGED <<flight_cargo, cargo_transport>>


(***************************************************************************)
(* Package: what a package is for and where it departs from.               *)
(***************************************************************************)
\* the priority order for package task names
tasks_by_priority ==
    << "CAS", "STRIKE", "ANTISHIP", "OCA_AIRCRAFT", "OCA_RUNWAY", "BAI", "DEAD",
       "TRANSPORT", "AIR_ASSAULT", "ARMED_RECON", "SEAD", "SEAD_SWEEP", "TARCAP",
       "BARCAP", "AEWC", "FERRY", "RECOVERY", "REFUELING", "SWEEP", "SEAD_ESCORT",
       "ESCORT" >>

\* "flight_counts[flight.flight_type] += 1" over package.flights
flight_counts(fs, task) ==
    Cardinality({i \in DOMAIN fs : flight_attrs[fs[i]].flight_type = task})

\* a search that keeps the last task of the list that some flight has
RECURSIVE last_counted(_, _)
last_counted(tasks, fs) ==
    IF tasks = <<>> THEN "None"
    ELSE IF flight_counts(fs, tasks[Len(tasks)]) # 0 THEN tasks[Len(tasks)]
    ELSE last_counted(SubSeq(tasks, 1, Len(tasks) - 1), fs)

\* "for task in tasks_by_priority: if flight_counts[task]: return task";
\* "None" when the loop ends without returning
RECURSIVE first_counted(_, _)
first_counted(tasks, fs) ==
    IF tasks = <<>> THEN "None"
    ELSE IF flight_counts(fs, Head(tasks)) # 0 THEN Head(tasks)
    ELSE first_counted(Tail(tasks), fs)

\* Package.primary_task; "None" is None
primary_task(package) ==
    LET fs == flights[package]
        task == first_counted(tasks_by_priority, fs)
    IN  IF fs = <<>> THEN "None"
        ELSE IF task # "None" THEN task
        ELSE flight_attrs[Head(fs)].flight_type       \* next(iter(self.flights))

\* Package.primary_flight; <<>> is None
primary_flight(package) ==
    LET task == primary_task(package)
        primaries == SelectSeq(flights[package],
                               LAMBDA x : flight_attrs[x].flight_type = task)
    IN  IF task = "None" THEN <<>>
        ELSE IF Len(primaries) > 0 THEN <<primaries[1]>>
        ELSE <<>>

\* reading package.primary_task
read_primary_task(package) ==
    /\ package \in packages
    /\ last' = Call("primary_task", NoState, "-", primary_task(package), TRUE, FALSE, <<>>)
    /\ UNCHANGED <<theaterVars, branchVars, contextVars, windowVars, factionVars,
                   packageVars, planVars>>

\* reading package.primary_flight
read_primary_flight(package) ==
    /\ package \in packages
    /\ last' = Call("primary_flight", NoState, "-", "-", TRUE, FALSE, primary_flight(package))
    /\ UNCHANGED <<theaterVars, branchVars, contextVars, windowVars, factionVars,
                   packageVars, planVars>>

\* ObjectiveDistanceCache.get_closest_airfields(target).operational_airfields:
\* the operational airfields, the closest to the target first
AirfieldLists ==
    {airfields \in UNION {[1 .. n -> Fleets \cup {"airbase"}] : n \in 0 .. 3} :
        \A i, j \in DOMAIN airfields : airfields[i] = airfields[j] => i = j}

\* a search that goes through the flights first and returns the departure
\* of the first flight that departs from one of the airfields
RECURSIVE first_flight_departure(_, _)
first_flight_departure(airfields, fs) ==
    IF fs = <<>> THEN "RuntimeError"
    ELSE IF Contains(airfields, flight_attrs[Head(fs)].departure)
         THEN flight_attrs[Head(fs)].departure
         ELSE first_flight_departure(airfields, Tail(fs))

\* "for airfield in cache.operational_airfields: for flight in self.flights:
\* if flight.departure == airfield: return airfield"; the loops ending
\* without a return is the RuntimeError that follows them
RECURSIVE closest_departure(_, _)
closest_departure(airfields, fs) ==
    IF airfields = <<>> THEN "RuntimeError"
    ELSE IF \E i \in DOMAIN fs : flight_attrs[fs[i]].departure = Head(airfields)
         THEN Head(airfields)
         ELSE closest_departure(Tail(airfields), fs)

\* Package.departure_closest_to_target()
departure_closest_to_target(package, airfields) ==
    LET found == IF flights[package] = <<>> THEN "RuntimeError"
                 ELSE closest_departure(airfields, flights[package])
    IN  /\ package \in packages
        /\ airfields \in AirfieldLists
        /\ last' = Call("departure_closest_to_target", NoState, "-", found,
                        found # "RuntimeError", found = "RuntimeError", airfields)
        /\ UNCHANGED <<theaterVars, branchVars, contextVars, windowVars, factionVars,
                       packageVars, planVars>>
(***************************************************************************)
(* PackagePlanningTask: planning a package and applying its effects.       *)
(***************************************************************************)
MaxProposed == 2
MaxRecovery == 2

\* The planning tasks of the pass and the flight each one's propose_flights
\* proposes: (task, num_aircraft).
Tasks == {"PlanBai", "PlanAewc"}
Proposal == [PlanBai |-> [task |-> "BAI", num_aircraft |-> 2],
             PlanAewc |-> [task |-> "AEWC", num_aircraft |-> 1]]

\* propose_flights / propose_flight: "self.flights.append(ProposedFlight(...))"
propose_flights(task) == Append(task_flights[task], Proposal[task])

\* coalition.ato.has_awacs_package
has_awacs_package ==
    \E i \in DOMAIN ato : \E j \in DOMAIN flights[ato[i]] :
        flight_attrs[flights[ato[i]][j]].flight_type = "AEWC"

\* the asap flag fulfill_mission hands to the fulfiller
mission_asap(proposed) ==
    ~has_awacs_package /\ \E i \in DOMAIN proposed : proposed[i].task = "AEWC"

\* the flight PackageFulfiller builds for a proposed flight
planned_flight(proposed) ==
    FlightOf("sq_a", "custom", 2, <<>>, proposed.task, "carrier", FALSE,
             proposed.num_aircraft)

package_kept(old, planned) == IF planned = NoPackage THEN old ELSE planned

\* "self.package = fulfiller.plan_mission(...)"
package_after_plan(old, planned) == planned

\* PackagePlanningTask.fulfill_mission(state); planned is what
\* PackageFulfiller.plan_mission returns: None (NoPackage) when the flights
\* cannot be sourced, otherwise a new package holding a flight for every
\* proposed flight.
fulfill_mission(task, state, planned) ==
    LET proposed == propose_flights(task)
        n == Len(proposed)
        first == next_flight
        new_ids == [i \in 1 .. n |-> first + i - 1]
        package == package_after_plan(task_package[task], planned)
    IN  /\ Len(proposed) <= MaxProposed
        /\ task_flights' = [task_flights EXCEPT ![task] = proposed]
        /\ \/ /\ planned = NoPackage
              /\ UNCHANGED <<packages, flights, time_over_target, waypoints,
                             created_flights, tasked, flight_package, flight_attrs, db>>
           \/ /\ planned = next_package
              /\ planned \in PackageId
              /\ first + n - 1 \in FlightId
              /\ packages' = packages \cup {planned}
              /\ flights' = [flights EXCEPT ![planned] = new_ids]
              /\ time_over_target' = [time_over_target EXCEPT ![planned] = DatetimeMin]
              /\ waypoints' = [waypoints EXCEPT ![planned] = "None"]
              /\ created_flights' = created_flights \cup Range(new_ids)
              /\ tasked' = tasked \cup Range(new_ids)
              /\ flight_package' = [f \in FlightId |->
                     IF f \in Range(new_ids) THEN planned ELSE flight_package[f]]
              /\ flight_attrs' = [f \in FlightId |->
                     IF f \in Range(new_ids)
                     THEN planned_flight(proposed[f - first + 1])
                     ELSE flight_attrs[f]]
              /\ db' = db \cup Range(new_ids)
        /\ task_package' = [task_package EXCEPT ![task] = package]
        \* "return self.package is not None"
        /\ last' = Call("preconditions_met", NoState, task,
                        IF mission_asap(proposed) THEN "asap" ELSE "-",
                        package # NoPackage, FALSE, <<>>)
        /\ UNCHANGED <<ato, flight_cargo, cargo_transport>>

auto_ato_disabled_for_any_coalition == auto_ato_behavior = "Disabled"

\* "state.context.coalition.player and
\*  state.context.settings.auto_ato_behavior is AutoAtoBehavior.Disabled"
auto_ato_disabled == player /\ auto_ato_behavior = "Disabled"

\* PackagePlanningTask.preconditions_met(state)
preconditions_met(task, state, planned) ==
    /\ task \in Tasks
    /\ state \in live
    /\ IF auto_ato_disabled
       THEN /\ planned = NoPackage
            /\ last' = Call("preconditions_met", NoState, task, "disabled",
                            FALSE, FALSE, <<>>)
            /\ UNCHANGED <<packageVars, planVars>>
       ELSE fulfill_mission(task, state, planned)
    /\ UNCHANGED <<theaterVars, branchVars, contextVars, windowVars, factionVars>>

runtime_error_never(package) == FALSE

\* "if self.package is None: raise RuntimeError(...)"
runtime_error(package) == package = NoPackage

\* PackagePlanningTask.execute(coalition)
execute(task) ==
    LET raised == runtime_error(task_package[task])
    IN  /\ task \in Tasks
        /\ ~Contains(ato, task_package[task])
        /\ ato' = IF raised THEN ato ELSE Append(ato, task_package[task])
        /\ last' = Call("execute", NoState, task, "-", ~raised, raised, <<>>)
        /\ UNCHANGED <<packages, flights, time_over_target, waypoints, created_flights, tasked,
                       flight_package, flight_attrs, db, flight_cargo, cargo_transport>>
        /\ UNCHANGED <<theaterVars, branchVars, contextVars, windowVars, factionVars, planVars>>

\* ControlPoint.is_fleet
is_fleet(cp) == cp \in Fleets

\* a loop that counts every non-helicopter flight of a fleet
RECURSIVE recover_every_flight(_, _, _)
recover_every_flight(fs, seen, targets) ==
    IF fs = <<>> THEN targets
    ELSE LET f == flight_attrs[Head(fs)]
         IN  IF is_fleet(f.departure) /\ ~f.is_helo
             THEN recover_every_flight(Tail(fs), seen,
                                       [targets EXCEPT ![f.departure] = @ + f.count])
             ELSE recover_every_flight(Tail(fs), seen, targets)

\* the loop of apply_effects over package.flights: recovery_targets after it
RECURSIVE recover(_, _, _)
recover(fs, seen, targets) ==
    IF fs = <<>> THEN targets
    ELSE LET f == flight_attrs[Head(fs)]
         IN  IF is_fleet(f.departure) /\ ~f.is_helo /\ f.departure \notin seen
             THEN recover(Tail(fs), seen \cup {f.departure},
                          [targets EXCEPT ![f.departure] = @ + f.count])
             ELSE recover(Tail(fs), seen, targets)

\* PackagePlanningTask.apply_effects(state)
apply_effects(task, state) ==
    LET targets == IF task_package[task] = NoPackage
                   THEN recovery_targets[state]
                   ELSE recover(flights[task_package[task]], {}, recovery_targets[state])
    IN  /\ task \in Tasks
        /\ state \in live
        /\ \A cp \in Fleets : targets[cp] <= MaxRecovery
        /\ recovery_targets' = [recovery_targets EXCEPT ![state] = targets]
        /\ last' = Call("apply_effects", state, task, "-", TRUE, FALSE, <<>>)
        /\ UNCHANGED <<barcaps_needed, enemy_battle_positions, bp_heap>>
        /\ UNCHANGED <<theaterVars, contextVars, windowVars, factionVars, packageVars, planVars>>

(***************************************************************************)
(* Battle positions of a TheaterState.                                     *)
(***************************************************************************)
\* the positions of a BattlePositions object, blocking ones first
in_priority_order(g) == bp_heap[g.blocking_capture] \o bp_heap[g.defending_front_line]

\* TheaterState.has_battle_position(target)
has_battle_position(state, target) ==
    Contains(in_priority_order(enemy_battle_positions[state][VehicleGroupPoint[target]]),
             target)

\* BattlePositions.eliminate(target): the target leaves the list that holds
\* it; list.remove raises ValueError when neither list holds it
battle_positions_eliminate(g, target) ==
    IF Contains(bp_heap[g.blocking_capture], target)
    THEN [raised |-> FALSE,
          heap |-> [bp_heap EXCEPT ![g.blocking_capture] = RemoveFirst(@, target)]]
    ELSE IF Contains(bp_heap[g.defending_front_line], target)
    THEN [raised |-> FALSE,
          heap |-> [bp_heap EXCEPT ![g.defending_front_line] = RemoveFirst(@, target)]]
    ELSE [raised |-> TRUE, heap |-> bp_heap]

\* TheaterState.eliminate_battle_position(target)
eliminate_battle_position(state, target) ==
    LET r == battle_positions_eliminate(
                 enemy_battle_positions[state][VehicleGroupPoint[target]], target)
    IN  /\ state \in live
        /\ bp_heap' = r.heap
        /\ last' = Call("eliminate_battle_position", NoState, "-", "-",
                        ~r.raised, r.raised, <<>>)
        /\ UNCHANGED <<recovery_targets, barcaps_needed, enemy_battle_positions>>
        /\ UNCHANGED <<theaterVars, contextVars, windowVars, factionVars, packageVars, planVars>>

(***************************************************************************)
(* QLiberationWindow: opening a save file.                                 *)
(***************************************************************************)
\* What happens to a save file on its way into the window: it loads and
\* works ("ok"), persistency.load_game returns nothing ("unreadable"), the
\* Migrator raises ("unmigratable"), the panels raise AttributeError when
\* handed the game ("incompatible"), or they raise another error ("broken").
SaveKinds == {"ok", "unreadable", "unmigratable", "incompatible", "broken"}
SaveNames == {"alpha", "bravo", "charlie"}
SaveSuffixes == {".retribution", ".liberation"}
Files == [name : SaveNames, ext : SaveSuffixes, kind : SaveKinds]
\* "file[0] == ''": the file dialog was cancelled
NoFile == [name |-> "", ext |-> "", kind |-> "cancelled"]
\* a Game is named by the file it was loaded from; None is NoGame
NoGame == [name |-> "", ext |-> "", kind |-> "none"]
\* the game the new game wizard generates
GeneratedGame == [name |-> "", ext |-> "", kind |-> "ok"]

\* persistency.load_game(path)
load_game(file) == IF file.kind = "unreadable" THEN NoGame ELSE file

\* Migrator(game, is_liberation) raises
migrator_raises(game, is_liberation) == game.kind = "unmigratable"

\* QLiberationWindow.migrate_game(game, path): the game returned and the
\* dialogs shown
migrate_game(game, path) ==
    IF game # NoGame
    THEN LET is_liberation == path.ext = ".liberation"
         IN  IF migrator_raises(game, is_liberation)
             THEN [game |-> NoGame, dialogs |-> <<"Incompatible save">>]
             ELSE [game |-> game, dialogs |-> <<>>]
    ELSE [game |-> NoGame, dialogs |-> <<"Incompatible save">>]

game_kept(game) == game

\* GameUpdateSignal.updateGame(None) inside setGame: gameupdated is
\* connected to setGame, which runs with None and sets self.game
game_after_update_none(game) == NoGame

\* QLiberationWindow.setGame(game): self.game, what enable_game_actions was
\* last called with, the dialogs shown, and whether an exception leaves
setGame(game) ==
    CASE game.kind = "incompatible" ->
             LET reset == game_after_update_none(game)
             IN  [game |-> reset, enabled |-> reset # NoGame,
                  dialogs |-> <<"Could not load save game">>, raised |-> FALSE]
      [] game.kind = "broken" ->
             [game |-> game, enabled |-> game # NoGame, dialogs |-> <<>>,
              raised |-> TRUE]
      [] OTHER ->
             [game |-> game, enabled |-> game # NoGame, dialogs |-> <<>>,
              raised |-> FALSE]

\* updateWindowTitle(save_path): the file name without directory and suffix
file_name(file) == file.name

WindowCall(op, file, dialogs, raised) ==
    Call(op, NoState, file.kind, file.name, ~raised, raised, dialogs)

\* QLiberationWindow.openFile with the file picked in the dialog
openFile(file) ==
    /\ file \in Files \cup {NoFile}
    /\ IF file = NoFile
       THEN /\ UNCHANGED windowVars
            /\ last' = WindowCall("openFile", file, <<>>, FALSE)
       ELSE LET migrated == migrate_game(load_game(file), file)
                set == setGame(migrated.game)
            IN  /\ window_game' = set.game
                /\ game_actions_enabled' = set.enabled
                /\ window_title' = IF set.raised THEN window_title ELSE file_name(file)
                /\ last' = WindowCall("openFile", file, migrated.dialogs \o set.dialogs,
                                      set.raised)
    /\ UNCHANGED <<theaterVars, branchVars, contextVars, factionVars, packageVars, planVars>>

\* QLiberationWindow.onGameGenerated(game), called by the new game wizard
onGameGenerated(game) ==
    LET set == setGame(game)
    IN  /\ window_title' = ""
        /\ window_game' = set.game
        /\ game_actions_enabled' = set.enabled
        /\ last' = WindowCall("onGameGenerated", game, set.dialogs, set.raised)
        /\ UNCHANGED <<theaterVars, branchVars, contextVars, factionVars, packageVars,
                       planVars>>

\* QLiberationWindow.saveGameAs with the file picked in the dialog; the
\* action is available while the game actions are enabled
saveGameAs(name, ext) ==
    /\ game_actions_enabled
    /\ window_game # NoGame
    \* "self.game.savepath = file[0]"
    /\ window_game' = [window_game EXCEPT !.name = name, !.ext = ext]
    /\ window_title' = name
    /\ UNCHANGED game_actions_enabled
    /\ last' = Call("saveGameAs", NoState, "-", name, TRUE, FALSE, <<>>)
    /\ UNCHANGED <<theaterVars, branchVars, contextVars, factionVars, packageVars, planVars>>

\* QLiberationWindow.onEndGame(state)
onEndGame(state) ==
    /\ IF state = "CONTINUE"
       THEN /\ UNCHANGED windowVars
            /\ last' = Call("onEndGame", NoState, state, "-", TRUE, FALSE, <<>>)
       ELSE LET set == setGame(NoGame)
            IN  /\ window_game' = set.game
                /\ game_actions_enabled' = set.enabled
                /\ UNCHANGED window_title
                \* "Victory!" if TurnState.WIN else "Defeat!": the enum member is truthy
                /\ last' = Call("onEndGame", NoState, state, "-", TRUE, FALSE,
                                <<"Victory!">>)
    /\ UNCHANGED <<theaterVars, branchVars, contextVars, factionVars, packageVars, planVars>>

(***************************************************************************)
(* Faction: filtering by mod settings.                                     *)
(***************************************************************************)
MaxPresets == 3

AircraftSets == {"aircraft", "awacs", "tankers"}
VehicleSets == {"frontline_units", "infantry_units", "air_defense_units",
                "artillery_units", "logistics_units", "missiles"}
ShipSets == {"naval_units"}
UnitSets == AircraftSets \cup VehicleSets \cup ShipSets

\* the mods of the model and what apply_mod_settings removes for each
Mods == {"a4_skyhawk", "spanishnavypack", "irondome"}
ModAircraft == [a4_skyhawk |-> {"A-4E-C"}, spanishnavypack |-> {}, irondome |-> {}]
ModShips == [a4_skyhawk |-> {}, spanishnavypack |-> {"L61"}, irondome |-> {}]
ModVehicles == [a4_skyhawk |-> {}, spanishnavypack |-> {}, irondome |-> {"IRON_DOME_LN"}]
ModPresets == [a4_skyhawk |-> {}, spanishnavypack |-> {}, irondome |-> {"Iron Dome"}]
PresetNames == {"Iron Dome", "Hawk"}

ModSettings == [Mods -> BOOLEAN]
\* "mod_settings: Optional[ModSettings] = None"
NoSettings == [none |-> TRUE]

\* remove_aircraft / remove_vehicle / remove_ship: the id leaves each of the
\* named sets (each loop runs over a copy of the set)
remove_units(units, sets, ids) ==
    [s \in UnitSets |-> IF s \in sets THEN units[s] \ ids ELSE units[s]]

\* "for pg in self.preset_groups: if pg.name == name: self.preset_groups.remove(pg)":
\* the list iterator is at index i of the list as it is now
RECURSIVE remove_preset_from(_, _, _)
remove_preset_from(groups, i, name) ==
    IF i > Len(groups) THEN groups
    ELSE IF groups[i] = name
         THEN remove_preset_from(RemoveFirst(groups, name), i + 1, name)
         ELSE remove_preset_from(groups, i + 1, name)

\* Faction.remove_preset(name)
remove_preset(groups, name) == remove_preset_from(groups, 1, name)

RECURSIVE remove_presets(_, _)
remove_presets(groups, names) ==
    IF names = {} THEN groups
    ELSE LET n == CHOOSE x \in names : TRUE
         IN  remove_presets(remove_preset(groups, n), names \ {n})

\* the ids apply_mod_settings removes under the settings
disabled(settings) == {mod \in Mods : ~settings[mod]}

\* Faction.apply_mod_settings(mod_settings)
apply_mod_settings(given) ==
    LET settings == IF given = NoSettings THEN mod_settings ELSE given
        off == disabled(settings)
        aircraft == UNION {ModAircraft[mod] : mod \in off}
        vehicles == UNION {ModVehicles[mod] : mod \in off}
        ships == UNION {ModShips[mod] : mod \in off}
        presets == UNION {ModPresets[mod] : mod \in off}
    IN  /\ given \in ModSettings \cup {NoSettings}
        /\ IF settings = NoSettings
           THEN UNCHANGED factionVars
           ELSE /\ mod_settings' = settings
                /\ faction_units' =
                       remove_units(remove_units(remove_units(faction_units,
                           AircraftSets, aircraft), VehicleSets, vehicles), ShipSets, ships)
                /\ preset_groups' = remove_presets(preset_groups, presets)
        /\ last' = Call("apply_mod_settings", NoState, "-", "-", TRUE, FALSE, <<>>)
        /\ UNCHANGED <<theaterVars, branchVars, contextVars, windowVars, packageVars,
                       planVars>>

(***************************************************************************)
(* Initial states: TheaterState.from_game.                                 *)
(***************************************************************************)
NoCall == Call("init", NoState, "-", "-", TRUE, FALSE, <<>>)

\* The root state of a planning pass, built by from_game: both persistent
\* lists are new and empty, the enemy lists hold every enemy object once.
from_game(air_defenses, ships) ==
    /\ live = {0}
    /\ enemy_air_defenses = [s \in StateId |-> IF s = 0 THEN air_defenses ELSE <<>>]
    /\ enemy_ships = [s \in StateId |-> IF s = 0 THEN ships ELSE <<>>]
    /\ threat_zones = [s \in StateId |-> IF s = 0 THEN IadsObjects ELSE {}]
    /\ threatening_air_defenses = [s \in StateId |-> <<"threatening", s>>]
    /\ detecting_air_defenses = [s \in StateId |-> <<"detecting", s>>]
    /\ list_heap = [r \in Ref |-> <<>>]

\* The window before a game is loaded (no last save file), and a faction
\* as loaded from its file, before any mod settings were applied.
InitWindow ==
    /\ window_game = NoGame
    /\ game_actions_enabled = FALSE
    /\ window_title = ""

FactionUnits ==
    [s \in UnitSets |->
        IF s \in AircraftSets THEN {"A-4E-C", "F-16C"}
        ELSE IF s \in ShipSets THEN {"L61", "PERRY"}
        ELSE {"IRON_DOME_LN", "M1A2"}]

InitFaction ==
    /\ faction_units = FactionUnits
    /\ preset_groups = <<"Hawk", "Iron Dome">>
    /\ mod_settings = NoSettings

InitBranch ==
    /\ recovery_targets = [s \in StateId |-> [cp \in Fleets |-> 0]]
    /\ barcaps_needed = [s \in StateId |-> [cp \in BarcapPoints |->
                            IF s = 0 THEN (IF cp \in Fleets THEN 2 ELSE 1) ELSE 0]]
    /\ enemy_battle_positions =
           [s \in StateId |-> [cp \in EnemyPoints |->
               [blocking_capture |-> <<"blocking_capture", cp>>,
                defending_front_line |-> <<"defending_front_line", cp>>]]]
    /\ bp_heap = [r \in BpRef |->
                     IF r[1] = "blocking_capture" THEN <<"vg_block">> ELSE <<"vg_front">>]

\* The planning coalition and its aggressiveness settings (0..100).
InitContext ==
    /\ player = TRUE
    /\ ownfor_autoplanner_aggressiveness = 0
    /\ opfor_autoplanner_aggressiveness = 50
    /\ auto_ato_behavior = "Default"

\* No package, flight or planning task exists.
InitNoCargo ==
    /\ flight_cargo = [f \in FlightId |-> NoCargo]
    /\ cargo_transport = [c \in Cargo |-> NoTransport]

InitNoPackages ==
    /\ packages = {}
    /\ flights = [p \in PackageId |-> <<>>]
    /\ time_over_target = [p \in PackageId |-> DatetimeMin]
    /\ waypoints = [p \in PackageId |-> "None"]
    /\ created_flights = {}
    /\ flight_package = [f \in FlightId |-> NoPackage]
    /\ flight_attrs = [f \in FlightId |-> NoFlight]
    /\ db = {}
    /\ ato = <<>>
    /\ tasked = {}
    /\ InitNoCargo

InitNoTasks ==
    /\ task_flights = [t \in Tasks |-> <<>>]
    /\ task_package = [t \in Tasks |-> NoPackage]

(***************************************************************************)
(* The threat-zone evaluation of one planning pass.                        *)
(***************************************************************************)
InitThreat ==
    /\ from_game(<<"sam1", "aaa1">>, <<"ship1">>)
    /\ InitBranch /\ InitWindow /\ InitFaction /\ InitContext /\ InitNoPackages /\ InitNoTasks /\ last = NoCall

NextThreat ==
    \/ \E s \in StateId, t \in Targets, ig \in BOOLEAN :
           target_area_preconditions_met(s, t, ig)
    \/ \E s, c \in StateId : clone(s, c)
    \/ \E s \in StateId, t \in AirDefenses : eliminate_air_defense(s, t)
    \/ \E s \in StateId, t \in Ships : eliminate_ship(s, t)

SpecThreat == InitThreat /\ [][NextThreat]_vars

(***************************************************************************)
(* The generator on its own, over every state the eliminations reach.      *)
(***************************************************************************)
NextRanges ==
    \/ \E s \in StateId, t \in Targets, rt \in RangeType : IterIadsRanges(s, t, rt)
    \/ \E s, c \in StateId : clone(s, c)
    \/ \E s \in StateId, t \in AirDefenses : eliminate_air_defense(s, t)
    \/ \E s \in StateId, t \in Ships : eliminate_ship(s, t)

InitRanges ==
    /\ \E air_defenses \in Permutations_(AirDefenses), ships \in Permutations_(Ships) :
           from_game(air_defenses, ships)
    /\ InitBranch /\ InitWindow /\ InitFaction /\ InitContext /\ InitNoPackages /\ InitNoTasks /\ last = NoCall

SpecRanges == InitRanges /\ [][NextRanges]_vars


(***************************************************************************)
(* Packages edited through the UI.                                         *)
(***************************************************************************)
InitPackage ==
    /\ from_game(<<"sam1", "aaa1">>, <<"ship1">>)
    /\ InitBranch /\ InitWindow /\ InitFaction /\ InitContext /\ InitNoPackages /\ InitNoTasks /\ last = NoCall

\* the flight the UI creates where only the package structure matters
UiFlight == FlightOf("sq_a", "custom", 2, <<"NAV", "TARGET_POINT">>, "BAI", "carrier", FALSE, 1)

NextPackage ==
    \/ NewPackage
    \/ \E p \in PackageId : ato_add_package(p)
    \/ \E p \in PackageId : SetWaypoints(p)
    \/ \E p \in PackageId : CreateFlight(p, UiFlight)
    \/ \E p \in PackageId, f \in FlightId : remove_flight(p, f)
    \/ \E p \in PackageId : clone_package(p)
    \/ \E f \in FlightId, sq \in Squadrons : change_squadron(f, sq)

SpecPackage == InitPackage /\ [][NextPackage]_vars

(***************************************************************************)
(* Time over target of packages under construction and in the ATO.         *)
(***************************************************************************)
NextTot ==
    \/ NewPackage
    \/ \E p \in PackageId, kind \in FlightKinds : CreateFlight(p, kind)
    \/ \E p \in PackageId : clone_package(p)
    \/ \E p \in PackageId, now \in Nows : set_tot_asap(p, now)
    \/ \E pkgs \in SUBSET PackageId, clock \in Nows : fix_tots(pkgs, clock)

SpecTot == InitPackage /\ [][NextTot]_vars

(***************************************************************************)
(* Planning tasks checked and executed by the theater commander.           *)
(***************************************************************************)
InitPlan ==
    /\ from_game(<<"sam1", "aaa1">>, <<"ship1">>)
    /\ InitBranch /\ InitWindow /\ InitFaction /\ InitNoPackages /\ InitNoTasks /\ last = NoCall
    /\ player \in BOOLEAN
    /\ auto_ato_behavior \in {"Default", "Disabled"}
    /\ ownfor_autoplanner_aggressiveness = 0
    /\ opfor_autoplanner_aggressiveness = 50

NextPlan ==
    \/ \E t \in Tasks, s \in StateId, planned \in {NoPackage} \cup PackageId :
           preconditions_met(t, s, planned)
    \/ \E t \in Tasks : execute(t)

SpecPlan == InitPlan /\ [][NextPlan]_vars

(***************************************************************************)
(* Speculative branches of the planner: a task has planned a package, and  *)
(* the pass clones the state and applies effects to the clones.            *)
(***************************************************************************)
InitBranches ==
    /\ from_game(<<"sam1", "aaa1">>, <<"ship1">>)
    /\ InitBranch /\ InitWindow /\ InitFaction /\ InitContext /\ last = NoCall
    /\ packages = {1}
    /\ flights = [p \in PackageId |-> IF p = 1 THEN <<1, 2>> ELSE <<>>]
    /\ time_over_target = [p \in PackageId |-> DatetimeMin]
    /\ waypoints = [p \in PackageId |-> "None"]
    /\ created_flights = {1, 2}
    /\ flight_package = [f \in FlightId |-> IF f \in {1, 2} THEN 1 ELSE NoPackage]
    /\ flight_attrs = [f \in FlightId |->
           IF f \in {1, 2} THEN planned_flight(Proposal["PlanBai"]) ELSE NoFlight]
    /\ db = {1, 2}
    /\ tasked = {1, 2}
    /\ InitNoCargo
    /\ ato = <<>>
    /\ task_flights = [t \in Tasks |->
           IF t = "PlanBai" THEN <<Proposal[t], Proposal[t]>> ELSE <<>>]
    /\ task_package = [t \in Tasks |-> IF t = "PlanBai" THEN 1 ELSE NoPackage]

NextBranches ==
    \/ \E s, c \in StateId : clone(s, c)
    \/ \E s \in StateId, t \in AirDefenses : eliminate_air_defense(s, t)
    \/ \E s \in StateId, t \in Ships : eliminate_ship(s, t)
    \/ \E s \in StateId, t \in VehicleGroups : eliminate_battle_position(s, t)
    \/ \E s \in StateId, t \in Tasks : apply_effects(t, s)

SpecBranches == InitBranches /\ [][NextBranches]_vars

(***************************************************************************)
(* Flights removed from packages that carry cargo and waypoints.           *)
(***************************************************************************)
\* the cargo of the flights of the package at the start: an airlift carries
\* the transfer it was planned for
CargoOf == [FlightId -> Cargo \cup {NoCargo}]

InitRemove ==
    /\ from_game(<<"sam1", "aaa1">>, <<"ship1">>)
    /\ InitBranch /\ InitWindow /\ InitFaction /\ InitContext /\ InitNoTasks /\ last = NoCall
    /\ \E n \in 0 .. 2, cargo \in CargoOf, wp \in {"None", "PackageWaypoints"} :
        /\ \A f \in FlightId : f > n => cargo[f] = NoCargo
        /\ \A f, g \in 1 .. n : cargo[f] = cargo[g] /\ cargo[f] # NoCargo => f = g
        /\ n = 0 => wp = "None"
        /\ packages = {1}
        /\ flights = [p \in PackageId |-> IF p = 1 THEN [i \in 1 .. n |-> i] ELSE <<>>]
        /\ waypoints = [p \in PackageId |-> IF p = 1 THEN wp ELSE "None"]
        /\ created_flights = 1 .. n
        /\ flight_package = [f \in FlightId |-> IF f \in 1 .. n THEN 1 ELSE NoPackage]
        /\ flight_attrs = [f \in FlightId |-> IF f \in 1 .. n THEN UiFlight ELSE NoFlight]
        /\ db = 1 .. n
        /\ tasked = 1 .. n
        /\ flight_cargo = cargo
        /\ cargo_transport = [c \in Cargo |->
               IF \E f \in 1 .. n : cargo[f] = c
               THEN CHOOSE f \in 1 .. n : cargo[f] = c
               ELSE NoTransport]
    /\ time_over_target = [p \in PackageId |-> DatetimeMin]
    /\ ato = <<1>>

NextRemove ==
    \/ \E p \in PackageId, f \in FlightId : remove_flight(p, f)
    \/ \E p \in PackageId : CreateFlight(p, UiFlight)
    \/ \E p \in PackageId : SetWaypoints(p)
    \/ \E f \in FlightId, sq \in Squadrons : change_squadron(f, sq)
    \/ NewPackage

SpecRemove == InitRemove /\ [][NextRemove]_vars

(***************************************************************************)
(* Packages of every mix of flight types and their primary task.           *)
(***************************************************************************)
\* flight types of the mixes: two that strike, two that protect, and one
\* that the priority list does not name
MixTypes == {"STRIKE", "DEAD", "BARCAP", "ESCORT", "PRETENSE_CARGO"}

MixFlights == { FlightOf("sq_a", "none", 0, <<>>, type, "airbase", FALSE, 1) : type \in MixTypes }

InitPrimary ==
    /\ from_game(<<"sam1", "aaa1">>, <<"ship1">>)
    /\ InitBranch /\ InitWindow /\ InitFaction /\ InitContext /\ InitNoTasks /\ last = NoCall
    /\ \E n \in 0 .. 2, attrs \in [1 .. 2 -> MixFlights] :
        /\ packages = {1}
        /\ flights = [p \in PackageId |-> IF p = 1 THEN [i \in 1 .. n |-> i] ELSE <<>>]
        /\ created_flights = 1 .. n
        /\ flight_package = [f \in FlightId |-> IF f \in 1 .. n THEN 1 ELSE NoPackage]
        /\ flight_attrs = [f \in FlightId |-> IF f \in 1 .. n THEN attrs[f] ELSE NoFlight]
        /\ db = 1 .. n
        /\ tasked = 1 .. n
    /\ InitNoCargo
    /\ waypoints = [p \in PackageId |-> "None"]
    /\ time_over_target = [p \in PackageId |-> DatetimeMin]
    /\ ato = <<>>

NextPrimary ==
    \/ \E p \in PackageId : read_primary_task(p)
    \/ \E p \in PackageId : read_primary_flight(p)
    \/ \E p \in PackageId, f \in FlightId : remove_flight(p, f)

SpecPrimary == InitPrimary /\ [][NextPrimary]_vars

(***************************************************************************)
(* Recovery demand of planned packages of every composition.               *)
(***************************************************************************)
Departures == Fleets \cup {"airbase"}

\* the flights of a planned package as far as apply_effects reads them
RecoveryFlights ==
    { FlightOf("sq_a", "none", 0, <<>>, "BAI", departure, is_helo, count) :
        departure \in Departures, is_helo \in BOOLEAN, count \in 1 .. 2 }

InitRecovery ==
    /\ from_game(<<"sam1", "aaa1">>, <<"ship1">>)
    /\ InitBranch /\ InitWindow /\ InitFaction /\ InitContext /\ last = NoCall
    /\ \E n \in 0 .. 2, planned \in BOOLEAN, attrs \in [1 .. 2 -> RecoveryFlights] :
        /\ planned \/ n = 0
        /\ packages = IF planned THEN {1} ELSE {}
        /\ flights = [p \in PackageId |-> IF planned /\ p = 1 THEN [i \in 1 .. n |-> i] ELSE <<>>]
        /\ created_flights = 1 .. n
        /\ flight_package = [f \in FlightId |-> IF f \in 1 .. n THEN 1 ELSE NoPackage]
        /\ flight_attrs = [f \in FlightId |-> IF f \in 1 .. n THEN attrs[f] ELSE NoFlight]
        /\ db = 1 .. n
        /\ tasked = 1 .. n
        /\ task_flights = [t \in Tasks |-> <<>>]
        /\ task_package = [t \in Tasks |-> IF planned /\ t = "PlanBai" THEN 1 ELSE NoPackage]
    /\ time_over_target = [p \in PackageId |-> DatetimeMin]
    /\ waypoints = [p \in PackageId |-> "None"]
    /\ ato = <<>>
    /\ InitNoCargo

NextRecovery ==
    \/ \E s, c \in StateId : clone(s, c)
    \/ \E s \in StateId, t \in Tasks : apply_effects(t, s)

SpecRecovery == InitRecovery /\ [][NextRecovery]_vars

(***************************************************************************)
(* The departure of these packages that is closest to the target.          *)
(***************************************************************************)
NextDeparture ==
    \/ \E p \in PackageId, airfields \in AirfieldLists :
           departure_closest_to_target(p, airfields)
    \/ \E p \in PackageId, f \in FlightId : remove_flight(p, f)

SpecDeparture == InitRecovery /\ [][NextDeparture]_vars

(***************************************************************************)
(* The main window across games opened, generated and ended.               *)
(***************************************************************************)
InitWindows ==
    /\ from_game(<<"sam1", "aaa1">>, <<"ship1">>)
    /\ InitBranch /\ InitWindow /\ InitFaction /\ InitContext /\ InitNoPackages /\ InitNoTasks /\ last = NoCall

NextWindow ==
    \/ \E file \in Files \cup {NoFile} : openFile(file)
    \/ onGameGenerated(GeneratedGame)
    \/ \E name \in SaveNames, ext \in SaveSuffixes :
           saveGameAs(name, ext)
    \/ \E state \in {"CONTINUE", "WIN", "LOSS"} : onEndGame(state)

SpecWindow == InitWindows /\ [][NextWindow]_vars

(***************************************************************************)
(* Factions loaded from their files and filtered by mod settings.          *)
(***************************************************************************)
PresetLists == UNION {[1 .. n -> PresetNames] : n \in 0 .. MaxPresets}

InitFactions ==
    /\ from_game(<<"sam1", "aaa1">>, <<"ship1">>)
    /\ InitBranch /\ InitWindow /\ InitContext /\ InitNoPackages /\ InitNoTasks
    /\ last = NoCall
    /\ faction_units = FactionUnits
    /\ preset_groups \in PresetLists
    /\ mod_settings = NoSettings

NextFaction ==
    \E given \in ModSettings \cup {NoSettings} : apply_mod_settings(given)

SpecFaction == InitFactions /\ [][NextFaction]_vars

(***************************************************************************)
(* The threat gate of one state under every aggressiveness setting.        *)
(***************************************************************************)
Aggressiveness == {0, 50, 100}

InitGate ==
    /\ from_game(<<"sam1", "aaa1">>, <<"ship1">>)
    /\ InitBranch /\ InitWindow /\ InitFaction /\ InitNoPackages /\ InitNoTasks
    /\ last = NoCall
    /\ player \in BOOLEAN
    /\ ownfor_autoplanner_aggressiveness \in Aggressiveness
    /\ opfor_autoplanner_aggressiveness \in Aggressiveness
    /\ auto_ato_behavior = "Default"

NextGate ==
    \/ \E s \in StateId, t \in GateTargets, ig \in BOOLEAN :
           target_area_preconditions_met(s, t, ig)
    \/ \E s \in StateId, t \in AirDefenses : eliminate_air_defense(s, t)
    \/ \E s \in StateId, t \in Ships : eliminate_ship(s, t)

SpecGate == InitGate /\ [][NextGate]_vars
(***************************************************************************)
(* Properties of the threat lists and of the generator.                    *)
(***************************************************************************)
\* C1: in every reachable state of a planning pass (any sequence of
\* target_area_preconditions_met, clone, eliminate_air_defense and
\* eliminate_ship), threatening_air_defenses and detecting_air_defenses of
\* every state hold no object more than once.
C1_ThreatListsDeduplicated ==
    \A s \in live : /\ NoDuplicates(threatening_list(s))
                    /\ NoDuplicates(detecting_list(s))

\* Both lists hold two objects after repeated evaluations on a state and
\* its clone.
C1_Witness ==
    /\ last.op = "target_area_preconditions_met"
    /\ live = StateId
    /\ Len(threatening_list(0)) = 2
    /\ Len(detecting_list(0)) = 2

\* The range of an object for a range type, and its distance_to_threat, as
\* the claim states them.
RangeOf(obj, range_type) ==
    IF range_type = "Detection" THEN DetectionRange[obj] ELSE ThreatRange[obj]
DistanceToThreat(obj, target, range_type) ==
    Abs(Position[obj] - Position[target]) - RangeOf(obj, range_type)
IndexIn(seq, x) == CHOOSE i \in DOMAIN seq : seq[i] = x

\* C4: iter_iads_ranges yields exactly the objects of enemy_air_defenses
\* followed by enemy_ships whose range of the given type is non-zero and
\* whose distance_to_threat is <= 0, each once, by non-decreasing
\* distance_to_threat (most negative first), equal ones in input order.
C4_IterIadsRangesOrdered ==
    last.op = "iter_iads_ranges" =>
        LET objs == all_iads(last.state)
            out == last.out
            key(o) == DistanceToThreat(o, last.target, last.arg)
            kept == {o \in Range(objs) :
                        RangeOf(o, last.arg) # 0 /\ key(o) <= 0}
        IN  /\ ~last.raised
            /\ Range(out) = kept
            /\ Len(out) = Cardinality(kept)
            /\ \A i, j \in DOMAIN out :
                   i < j => /\ key(out[i]) <= key(out[j])
                            /\ key(out[i]) = key(out[j]) =>
                                   IndexIn(objs, out[i]) < IndexIn(objs, out[j])
            /\ out # <<>> => \A o \in kept : key(out[1]) <= key(o)

\* The generator has yielded two objects in another order than the input's.
C4_Witness ==
    /\ last.op = "iter_iads_ranges"
    /\ Len(last.out) = 2
    /\ IndexIn(all_iads(last.state), last.out[1])
           > IndexIn(all_iads(last.state), last.out[2])

\* C5: the threat zone evaluation has no failure state: no evaluation
\* raises, and on a state whose enemy_air_defenses and enemy_ships are both
\* empty the generators yield nothing and target_area_preconditions_met
\* returns True and leaves both persistent lists as they were.
C5_NoFailureState ==
    [][\A s \in StateId, t \in Targets, ig \in BOOLEAN :
           target_area_preconditions_met(s, t, ig) =>
               /\ ~iter_detecting_iads(s, t).raised
               /\ ~iter_iads_threats(s, t).raised
               /\ ~last'.raised
               /\ all_iads(s) = <<>> =>
                      /\ iter_detecting_iads(s, t).out = <<>>
                      /\ iter_iads_threats(s, t).out = <<>>
                      /\ last'.ret
                      /\ list_heap' = list_heap]_vars

\* target_area_preconditions_met has returned True where every state's
\* enemy lists are empty.
C5_Witness ==
    /\ last.op = "target_area_preconditions_met"
    /\ last.ret
    /\ \A s \in live : all_iads(s) = <<>>

WeightedDistance(obj, target, a) ==
    LET factor == CASE GroupTask[obj] \in {"LORAD", "MERAD"} -> 10
                    [] GroupTask[obj] = "AAA" -> 5
                    [] OTHER -> 9
    IN  1000 * Abs(Position[obj] - Position[target])
            - ThreatRange[obj] * (100 - a) * factor

InThreatRange(state, target) ==
    {obj \in Range(all_iads(state)) : DistanceToThreat(obj, target, "Threat") <= 0
                                      /\ ThreatRange[obj] # 0}

InDetectionRange(state, target) ==
    {obj \in Range(all_iads(state)) : DistanceToThreat(obj, target, "Detection") <= 0
                                      /\ DetectionRange[obj] # 0}

\* C15: with ignore_iads False, target_area_preconditions_met returns True
\* exactly when no in-range threat has a weighted distance to threat below
\* zero, and afterwards every in-range detector is in detecting_air_defenses
\* and every in-range threat in threatening_air_defenses; with ignore_iads
\* True it returns True, leaves threatening_air_defenses as it was and still
\* records the detectors.
C15_ThreatGate ==
    [][\A s \in StateId, t \in GateTargets, ig \in BOOLEAN :
           target_area_preconditions_met(s, t, ig) =>
               /\ ~last'.raised
               /\ InDetectionRange(s, t) \subseteq Range(list_heap'[detecting_air_defenses[s]])
               /\ IF ig
                  THEN /\ last'.ret = TRUE
                       /\ list_heap'[threatening_air_defenses[s]] = threatening_list(s)
                  ELSE /\ last'.ret =
                              (\A obj \in InThreatRange(s, t) :
                                   WeightedDistance(obj, t, aggressiveness) >= 0)
                       /\ InThreatRange(s, t) \subseteq
                              Range(list_heap'[threatening_air_defenses[s]])]_vars

\* A task passed the gate at aggressiveness 50 in a state whose persistent
\* lists hold recorded threats and detectors.
C15_Witness ==
    /\ last.op = "target_area_preconditions_met"
    /\ last.ret = TRUE
    /\ threatening_list(0) # <<>>
    /\ detecting_list(0) # <<>>
    /\ aggressiveness = 50

\* the aggressiveness setting of the coalition that plans
PlanningAggressiveness ==
    IF player THEN ownfor_autoplanner_aggressiveness ELSE opfor_autoplanner_aggressiveness

AggressivenessLevels == {5 * k : k \in 0 .. 20}

\* the gate of a task on target at margin m, given the in-range threats: no
\* threat has a weighted distance to threat below zero
NotThreatenedAt(threats, target, m) ==
    \A i \in DOMAIN threats :
        ~blocks(distance_to(threats[i], target) * 1000
                    - weighted_threat_range(threats[i], m))

\* C16: at every call of target_area_preconditions_met, a target that is
\* not threatened at an aggressiveness a is not threatened at any a2 >= a
\* (a, a2 in 0..100); at planning aggressiveness 100 the weighted threat
\* range is zero and the call returns True; and the weighted threat range of
\* an object never exceeds its max_threat_range.
C16_GateMonotoneInAggressiveness ==
    [][\A s \in StateId, t \in GateTargets :
           target_area_preconditions_met(s, t, FALSE) =>
               LET threats == iter_iads_threats(s, t).out
                   passes == {a \in AggressivenessLevels :
                                  NotThreatenedAt(threats, t, 100 - a)}
               IN  /\ \A a \in passes, a2 \in AggressivenessLevels :
                          a <= a2 => a2 \in passes
                   /\ last'.ret = (PlanningAggressiveness \in passes)
                   /\ 100 \in passes
                   /\ PlanningAggressiveness = 100 =>
                          /\ \A obj \in IadsObjects :
                                 weighted_threat_range(obj, margin) = 0
                          /\ last'.ret = TRUE
                   /\ \A obj \in IadsObjects, a \in AggressivenessLevels :
                          weighted_threat_range(obj, 100 - a) <= 1000 * max_threat_range(obj)]_vars

\* At aggressiveness 100 a task passed the gate although an armed defense
\* sits on its target.
C16_Witness ==
    /\ last.op = "target_area_preconditions_met"
    /\ last.ret = TRUE
    /\ PlanningAggressiveness = 100
    /\ Contains(threatening_list(0), "aaa1")
    /\ Contains(enemy_air_defenses[0], "aaa1")

\* C17: in every live state, every object in the state's
\* threatening_air_defenses and detecting_air_defenses is in the state's
\* enemy_air_defenses or enemy_ships.
C17_ListedThreatsAreEnemies ==
    \A s \in live :
        Range(threatening_list(s)) \cup Range(detecting_list(s))
            \subseteq Range(all_iads(s))

(***************************************************************************)
(* Properties of packages and their flights.                               *)
(***************************************************************************)
Occurrences(seq, x) == Cardinality({i \in DOMAIN seq : seq[i] = x})

\* C2: after any sequence of add_flight, remove_flight, clone_package and
\* change-squadron, every flight that is in some package's flights list is
\* in the list of exactly one package, exactly once, and its flight.package
\* is that package.
C2_FlightInExactlyOnePackage ==
    \A f \in created_flights :
        LET holders == {p \in packages : Contains(flights[p], f)}
        IN  holders # {} =>
                /\ Cardinality(holders) = 1
                /\ \A p \in holders : /\ Occurrences(flights[p], f) = 1
                                      /\ flight_package[f] = p

\* A package and its clone both hold a flight.
C2_Witness ==
    /\ last.op = "clone_package"
    /\ \E p1, p2 \in packages : /\ p1 # p2
                                /\ flights[p1] # <<>>
                                /\ flights[p2] # <<>>

\* C3: for every package and every flight in it with a custom flight plan,
\* the time the plan derives for its TOT waypoint and the plan's
\* mission_departure_time are the package's current time_over_target,
\* whatever set_tot_asap, fix_tots and clone_package did to it.
C3_TotDerivedFromPackage ==
    \A p \in packages : \A i \in DOMAIN flights[p] :
        LET f == flights[p][i]
        IN  flight_attrs[f].flight_plan = "custom" =>
                /\ mission_departure_time(f) = time_over_target[p]
                /\ tot_for_waypoint(f, tot_waypoint(f)) = time_over_target[p]

\* A package and its clone hold custom flights and have different,
\* re-estimated times over target.
C3_Witness ==
    /\ last.op \in {"set_tot_asap", "fix_tots"}
    /\ \E p1, p2 \in packages :
           /\ time_over_target[p1] # time_over_target[p2]
           /\ time_over_target[p2] # DatetimeMin
           /\ \E i \in DOMAIN flights[p1] :
                  flight_attrs[flights[p1][i]].flight_plan = "custom"
           /\ \E i \in DOMAIN flights[p2] :
                  flight_attrs[flights[p2][i]].flight_plan = "custom"

C8_EmptiedPackageLeavesAto ==
    [][\A p \in PackageId, f \in FlightId :
           (remove_flight(p, f) /\ Contains(flights[p], f) /\ flights'[p] = <<>>) =>
               /\ ~Contains(ato', p)
               /\ waypoints'[p] = "None"]_vars

\* C8, amended: once remove_flight has removed the last flight of a
\* package, the package has no flights and its waypoints are None;
\* remove_flight leaves the ATO as it is, so a package of the ATO stays in
\* it with zero flights.
C8_EmptiedPackageResetsWaypoints ==
    [][\A p \in PackageId, f \in FlightId :
           (remove_flight(p, f) /\ Contains(flights[p], f) /\ flights'[p] = <<>>) =>
               /\ waypoints'[p] = "None"
               /\ ato' = ato]_vars

\* A package of the ATO has lost its only flight: it is still in the ATO,
\* without flights and without waypoints.
C8_Witness ==
    /\ last.op = "remove_flight"
    /\ ~last.raised
    /\ \E p \in packages :
           /\ Contains(ato, p)
           /\ flights[p] = <<>>
           /\ waypoints[p] = "None"
           /\ \E f \in created_flights : flight_package[f] = p /\ f \notin db


\* the ids of the flights held in the flights lists of the packages
FlightsInPackages == UNION {Range(flights[p]) : p \in packages}

\* C19: the flight ids registered in the database are exactly the ids of the
\* flights held in the packages' flights lists.
C19_DatabaseHoldsPackagedFlights == db = FlightsInPackages

\* a flight was removed from a package while a cloned package still holds
\* its own flight: the removed id is unregistered, the clone's id registered
C19_Witness ==
    /\ last.op = "remove_flight"
    /\ ~last.raised
    /\ \E p, c \in packages :
           /\ p # c
           /\ flights[p] = <<>>
           /\ flights[c] # <<>>
           /\ \E f \in created_flights : flight_package[f] = p /\ f \notin db
           /\ \E f \in db : flight_package[f] = c

\* the list without its element at place k
Without(list, k) == [i \in 1 .. (Len(list) - 1) |-> IF i < k THEN list[i] ELSE list[i + 1]]

TypesIn(p) == {flight_attrs[flights[p][i]].flight_type : i \in DOMAIN flights[p]}

\* the place of a task in the priority list
Priority(task) == CHOOSE k \in DOMAIN tasks_by_priority : tasks_by_priority[k] = task

\* the listed type of a package that precedes all its other listed types;
\* the first flight's type when none of its types is listed
MainTask(p) ==
    LET listed == TypesIn(p) \cap Range(tasks_by_priority)
    IN  IF listed = {} THEN flight_attrs[flights[p][1]].flight_type
        ELSE CHOOSE t \in listed : \A u \in listed : Priority(t) <= Priority(u)

\* C21: primary_task is None exactly when the package has no flights;
\* otherwise it is the first task of the priority list (CAS, STRIKE,
\* ANTISHIP, OCA_AIRCRAFT, OCA_RUNWAY, BAI, DEAD, ..., SEAD_ESCORT, ESCORT)
\* that some flight has, whatever the order and the number of the flights,
\* or the first flight's type when no type is listed; primary_flight is the
\* first flight of the package with that task and is not None for a package
\* with flights.
C21_PrimaryTaskByPriority ==
    [][/\ SubSeq(tasks_by_priority, 1, 7) =
               <<"CAS", "STRIKE", "ANTISHIP", "OCA_AIRCRAFT", "OCA_RUNWAY", "BAI", "DEAD">>
       /\ SubSeq(tasks_by_priority, Len(tasks_by_priority) - 1, Len(tasks_by_priority)) =
               <<"SEAD_ESCORT", "ESCORT">>
       /\ \A p \in PackageId :
            /\ read_primary_task(p) =>
                 /\ last'.arg = "None" <=> flights[p] = <<>>
                 /\ flights[p] # <<>> => last'.arg = MainTask(p)
                 /\ {"BARCAP", "STRIKE"} \subseteq TypesIn(p) => last'.arg = "STRIKE"
                 /\ TypesIn(p) = {"BARCAP", "DEAD"} => last'.arg = "DEAD"
            /\ read_primary_flight(p) =>
                 IF flights[p] = <<>> THEN last'.out = <<>>
                 ELSE \E i \in DOMAIN flights[p] :
                        /\ last'.out = <<flights[p][i]>>
                        /\ flight_attrs[flights[p][i]].flight_type = MainTask(p)
                        /\ \A j \in 1 .. (i - 1) :
                               flight_attrs[flights[p][j]].flight_type # MainTask(p)
      ]_vars

\* primary_flight of a package whose first flight is a BARCAP and whose
\* second is a DEAD flight is the second flight
C21_Witness ==
    /\ last.op = "primary_flight"
    /\ last.out = <<2>>
    /\ flights[1] = <<1, 2>>
    /\ flight_attrs[1].flight_type = "BARCAP"
    /\ flight_attrs[2].flight_type = "DEAD"

\* the places in the list of the airfields that some flight of the package
\* departs from
DepartureHits(p, airfields) ==
    {k \in DOMAIN airfields :
        \E i \in DOMAIN flights[p] : flight_attrs[flights[p][i]].departure = airfields[k]}

\* C22: departure_closest_to_target raises RuntimeError for a package
\* without flights and when no flight departs from an operational airfield;
\* otherwise it returns the first airfield of the closest-first list that
\* some flight of the package departs from, which is the departure of one of
\* the package's flights.
C22_DepartureClosestToTarget ==
    [][\A p \in PackageId, airfields \in AirfieldLists :
        departure_closest_to_target(p, airfields) =>
            LET hits == DepartureHits(p, airfields)
            IN  /\ flights[p] = <<>> => last'.raised
                /\ hits = {} => last'.raised
                /\ (flights[p] # <<>> /\ hits # {}) =>
                       /\ ~last'.raised
                       /\ last'.arg = airfields[CHOOSE k \in hits : \A j \in hits : k <= j]
                       /\ \E i \in DOMAIN flights[p] :
                              flight_attrs[flights[p][i]].departure = last'.arg
                /\ UNCHANGED <<packageVars, planVars>>
      ]_vars

\* the second flight of the package departs from the airfield closest to
\* the target, the first from one further away: the call returned the
\* departure of the second flight
C22_Witness ==
    /\ last.op = "departure_closest_to_target"
    /\ ~last.raised
    /\ last.out = <<"airbase", "lha", "carrier">>
    /\ flights[1] = <<1, 2>>
    /\ flight_attrs[1].departure = "carrier"
    /\ flight_attrs[2].departure = "lha"
    /\ last.arg = "lha"

\* the waypoint types at which a custom plan takes its TOT
TargetTypes == {"PATROL_TRACK", "TARGET_GROUP_LOC", "TARGET_POINT", "TARGET_SHIP"}

\* the first waypoint of the plan with one of these types, the departure
\* waypoint when the plan has none
FirstTargetWaypoint(f) ==
    LET ws == plan_waypoints(f)
        hits == {i \in DOMAIN ws : waypoint_type(f, ws[i]) \in TargetTypes}
    IN  IF hits = {} THEN 0 ELSE ws[CHOOSE i \in hits : \A j \in hits : i <= j]

\* C23: tot_waypoint of a custom flight plan is the first waypoint of the
\* plan whose type is PATROL_TRACK, TARGET_GROUP_LOC, TARGET_POINT or
\* TARGET_SHIP, and the departure waypoint only when the plan has none;
\* tot_for_waypoint is the flight's TOT for that waypoint and None for every
\* other waypoint; depart_time_for_waypoint is always None.
C23_TotWaypointIsFirstTarget ==
    \A f \in created_flights :
        flight_attrs[f].flight_plan = "custom" =>
            /\ tot_waypoint(f) = FirstTargetWaypoint(f)
            /\ \A i \in DOMAIN plan_waypoints(f) :
                   LET w == plan_waypoints(f)[i]
                   IN  /\ tot_for_waypoint(f, w) =
                              IF w = FirstTargetWaypoint(f) THEN flight_plan_tot(f)
                              ELSE NoPackage - 1
                       /\ depart_time_for_waypoint(f, w) = NoPackage - 1
(***************************************************************************)
(* Properties of planning tasks and speculative branches.                  *)
(***************************************************************************)
\* C6: when plan_mission returns no package, preconditions_met returns
\* False without raising, task.package is None afterwards, and neither the
\* coalition's ATO nor the set of packages has changed.
C6_FailedPlanningLeavesNoPackage ==
    [][\A t \in Tasks, s \in StateId :
           (/\ preconditions_met(t, s, NoPackage)
            /\ ~(player /\ auto_ato_behavior = "Disabled")) =>
               /\ last'.ret = FALSE
               /\ ~last'.raised
               /\ task_package'[t] = NoPackage
               /\ ato' = ato
               /\ packages' = packages]_vars

\* A task whose earlier planning produced a package has failed to plan,
\* while another task's package is in the ATO.
C6_Witness ==
    /\ last.op = "preconditions_met"
    /\ last.arg # "disabled"
    /\ last.ret = FALSE
    /\ task_package[last.target] = NoPackage
    /\ ato # <<>>
    /\ \E p \in packages : /\ ~Contains(ato, p)
                           /\ \A t \in Tasks : task_package[t] # p

\* What a planning branch reads of a TheaterState.
Observed(s) ==
    [enemy_air_defenses |-> enemy_air_defenses[s],
     enemy_ships |-> enemy_ships[s],
     enemy_battle_positions |->
         [cp \in EnemyPoints |-> in_priority_order(enemy_battle_positions[s][cp])],
     has_battle_position |-> [t \in VehicleGroups |-> has_battle_position(s, t)],
     recovery_targets |-> recovery_targets[s],
     barcaps_needed |-> barcaps_needed[s],
     threat_zones |-> threat_zones[s]]

\* C9: state 1 is the first clone of the root state 0. No
\* eliminate_air_defense, eliminate_ship, eliminate_battle_position or
\* apply_effects applied to the clone changes the root's enemy_air_defenses,
\* enemy_ships, enemy_battle_positions, has_battle_position results,
\* recovery_targets, barcaps_needed or threat_zones.
C9_BranchesIsolated ==
    [][(\/ \E t \in AirDefenses : eliminate_air_defense(1, t)
        \/ \E t \in Ships : eliminate_ship(1, t)
        \/ \E t \in VehicleGroups : eliminate_battle_position(1, t)
        \/ \E t \in Tasks : apply_effects(t, 1)) =>
           Observed(0)' = Observed(0)]_vars

\* C13: execute adds exactly task.package to the ATO; a task has a package
\* only from a preconditions_met of its own that returned True; execute on a
\* task whose package is None raises RuntimeError and leaves the ATO as it
\* is.
C13_ExecuteCommitsPlannedPackage ==
    [][/\ \A t \in Tasks :
              execute(t) =>
                  IF task_package[t] = NoPackage
                  THEN last'.raised /\ ato' = ato
                  ELSE ~last'.raised /\ ato' = Append(ato, task_package[t])
       /\ \A t \in Tasks :
              (task_package'[t] # task_package[t] /\ task_package'[t] # NoPackage) =>
                  /\ last'.op = "preconditions_met"
                  /\ last'.target = t
                  /\ last'.ret = TRUE]_vars

\* Both tasks have executed: the ATO holds their two packages in the order
\* of the calls.
C13_Witness ==
    /\ last.op = "execute"
    /\ ~last.raised
    /\ Len(ato) = 2
    /\ ato[2] = task_package[last.target]
    /\ \A t \in Tasks : Contains(ato, task_package[t])

\* C14: for the player coalition with auto_ato_behavior Disabled,
\* preconditions_met returns False, proposes no flight and plans nothing:
\* task.flights is still empty, task.package still None, and no package or
\* flight was created. For the other coalition the setting changes nothing:
\* the flights are proposed and the result is the fulfiller's.
C14_DisabledAutoAtoPlansNothing ==
    [][\A t \in Tasks, s \in StateId, planned \in {NoPackage} \cup PackageId :
           preconditions_met(t, s, planned) =>
               IF player /\ auto_ato_behavior = "Disabled"
               THEN /\ last'.ret = FALSE
                    /\ ~last'.raised
                    /\ task_flights'[t] = <<>>
                    /\ task_package'[t] = NoPackage
                    /\ UNCHANGED <<planVars, packageVars>>
               ELSE /\ task_flights'[t] = Append(task_flights[t], Proposal[t])
                    /\ task_package'[t] = planned
                    /\ last'.ret = (planned # NoPackage)]_vars

\* The player's task was checked with automatic planning disabled.
C14_Witness ==
    /\ last.op = "preconditions_met"
    /\ last.arg = "disabled"
    /\ last.ret = FALSE
    /\ player
    /\ auto_ato_behavior = "Disabled"
    /\ packages = {}


\* the places in a flights list of the non-helicopter flights that depart
\* from the control point
RecoveringAt(fs, cp) ==
    {i \in 1 .. Len(fs) : flight_attrs[fs[i]].departure = cp /\ ~flight_attrs[fs[i]].is_helo}

\* the aircraft count of the first of these flights, 0 without one
FirstCount(fs, cp) ==
    IF RecoveringAt(fs, cp) = {} THEN 0
    ELSE flight_attrs[fs[CHOOSE i \in RecoveringAt(fs, cp) :
                            \A j \in RecoveringAt(fs, cp) : i <= j]].count

\* C18: apply_effects changes only the recovery_targets of its state: the
\* entry of each fleet control point grows by the aircraft count of the first
\* non-helicopter flight of the package that departs from it (by nothing
\* without such a flight), no entry decreases, and without a package nothing
\* changes.
C18_ApplyEffectsRecoversOncePerFleet ==
    [][\A t \in Tasks, s \in StateId :
        apply_effects(t, s) =>
            LET fs == IF task_package[t] = NoPackage THEN <<>> ELSE flights[task_package[t]]
            IN  /\ \A cp \in Fleets :
                     /\ recovery_targets'[s][cp] = recovery_targets[s][cp] + FirstCount(fs, cp)
                     /\ recovery_targets'[s][cp] >= recovery_targets[s][cp]
                /\ DOMAIN recovery_targets'[s] = DOMAIN recovery_targets[s]
                /\ \A o \in StateId \ {s} : recovery_targets'[o] = recovery_targets[o]
                /\ task_package[t] = NoPackage => recovery_targets' = recovery_targets
                /\ UNCHANGED <<barcaps_needed, enemy_battle_positions, bp_heap>>
                /\ UNCHANGED <<theaterVars, contextVars, windowVars, factionVars, packageVars, planVars>>
      ]_vars

\* apply_effects ran on a package with two non-helicopter flights of
\* different sizes from one fleet, a helicopter flight aside, and the fleet's
\* entry grew by the size of the first flight only
C18_Witness ==
    /\ last.op = "apply_effects"
    /\ task_package[last.target] # NoPackage
    /\ LET fs == flights[task_package[last.target]]
       IN  /\ Len(fs) = 2
           /\ flight_attrs[fs[1]].departure = "lha"
           /\ flight_attrs[fs[2]].departure = "lha"
           /\ ~flight_attrs[fs[1]].is_helo /\ ~flight_attrs[fs[2]].is_helo
           /\ flight_attrs[fs[1]].count = 1 /\ flight_attrs[fs[2]].count = 2
    /\ recovery_targets[last.state]["lha"] = 1
    /\ recovery_targets[last.state]["carrier"] = 0
(***************************************************************************)
(* Properties of the main window and of factions.                          *)
(***************************************************************************)
\* C11: opening a save file whose game is missing or whose migration raises
\* makes migrate_game return None after showing the "Incompatible save"
\* dialog, and no exception leaves openFile; opening a save whose game makes
\* setGame fail as incompatible shows a dialog, leaves self.game None and the
\* game actions disabled.
C11_IncompatibleSaveSurfaced ==
    [][\A file \in Files :
           openFile(file) =>
               /\ file.kind \in {"unreadable", "unmigratable"} =>
                      /\ migrate_game(load_game(file), file).game = NoGame
                      /\ Contains(last'.out, "Incompatible save")
                      /\ ~last'.raised
               /\ file.kind = "incompatible" =>
                      /\ Contains(last'.out, "Could not load save game")
                      /\ window_game' = NoGame
                      /\ ~game_actions_enabled']_vars

\* An incompatible save has been opened: its dialog was shown, no game is set
\* and the game actions are off.
C11_Witness ==
    /\ last.op = "openFile"
    /\ last.target = "incompatible"
    /\ last.out = <<"Could not load save game">>
    /\ window_game = NoGame
    /\ ~game_actions_enabled
    /\ window_title # ""

\* C12: after apply_mod_settings with a mod disabled, no aircraft, vehicle
\* or ship listed for the mod is in any unit set of the faction, and no
\* preset group listed for the mod is in preset_groups.
C12_ModFilteringComplete ==
    [][\A given \in ModSettings \cup {NoSettings} :
           (apply_mod_settings(given) /\ mod_settings' # NoSettings) =>
               \A mod \in disabled(mod_settings') :
                   /\ \A s \in UnitSets :
                          faction_units'[s] \cap
                              (ModAircraft[mod] \cup ModVehicles[mod] \cup ModShips[mod]) = {}
                   /\ \A name \in ModPresets[mod] : ~Contains(preset_groups', name)]_vars

====
